---- MODULE Spec2Model ----
(***************************************************************************)
(* Leave-policy engine of the attendance system: the hospital policy       *)
(* (hospital.py), and the super-clinic dispatcher with its staff and       *)
(* consultant policies (superclinic.py), over the attendance table of one  *)
(* employee and that employee's row of the employee master table.          *)
(***************************************************************************)
EXTENDS Integers, Sequences, FiniteSets

VARIABLES
    org,         \* which program owns the database: "hospital" or "superclinic"
    profile,     \* the employee's row of the employees table, or NoProfile
    attendance,  \* month key -> (day -> row of the monthly attendance table)
    applied,     \* month keys whose policy ran to its end on at least one row
    reapplied,   \* month keys whose policy did so at least twice
    last,        \* month key of the most recent policy invocation, or NoMonth
    result,      \* how that invocation ended: the policy that ran, what it
                 \* logged, and whether an exception reached its caller
    batch,       \* the batch loop of the front end: its kind, the month and the
                 \* employees still to process, and what it did so far
    running,     \* month key -> the consultant invocation in flight on that
                 \* month in a session of its own: its position and the
                 \* values it read, or Idle
    colleague    \* a second employee of the same database: the master row
                 \* and the attendance rows (month key -> day -> row)

vars == <<org, profile, attendance, applied, reapplied, last, result, batch, running, colleague>>

----------------------------------------------------------------------------
(* Bounds of the model *)

\* days exported for the month of a hospital or staff employee
MaxDay == 13
\* days exported for the first and for the second month of a consultant
ConsDays == 5
ShortDays == 2
\* largest cl_calendar_year_quota stored explicitly in a consultant profile
MaxYearQuota == 3

----------------------------------------------------------------------------
(* Values *)

\* SQL NULL / Python None in a TEXT column
NULL == "NULL"
\* SQL NULL in the INTEGER column cl_calendar_year_quota
NullQuota == -1
\* fetchone() returned no row
NoProfile == [category |-> "<no row>"]
NoMonth == "<none>"

\* an invocation that returned to its caller, by the policy it ran and the
\* message it logged
Returned(variant, report) == [variant |-> variant, report |-> report, raised |-> FALSE]
NoResult == Returned("<none>", "<none>")
\* an invocation whose exception reached its caller
Raised == [variant |-> "<none>", report |-> "<none>", raised |-> TRUE]

MonthKeys == {"Jun 2025", "Jul 2025"}

\* a parsed punch time, as parse_time / parse_time_sc store it
SomeTime == "09:00"

\* date_of_joining: NULL, a date (year, month, day), or text that is no date
BadDate == <<0, 0, 0>>
NoDate == <<>>

Max(a, b) == IF a >= b THEN a ELSE b
Min(a, b) == IF a <= b THEN a ELSE b

\* largest element of a finite set of naturals, 0 for the empty set
Max0(S) == IF S = {} THEN 0 ELSE CHOOSE x \in S : \A y \in S : y <= x

----------------------------------------------------------------------------
(* Rows *)

\* id INTEGER PRIMARY KEY AUTOINCREMENT is kept as its rank among the ids of
\* the employee-month: a scan of the table meets the rows in the order of
\* their ids. Rows inserted in one pass of the day loop have ids in day order.
NewRow(day, in_time, out_time) ==
    [id |-> day, day |-> day, status_raw |-> NULL, status_calculated |-> NULL,
     in_time |-> in_time, out_time |-> out_time, leave_type_used |-> NULL]

\* ORDER BY day over the rows of one employee-month
RECURSIVE OrderByDay(_)
OrderByDay(S) ==
    IF S = {} THEN <<>>
    ELSE LET d == CHOOSE x \in S : \A y \in S : x <= y
         IN <<d>> \o OrderByDay(S \ {d})

\* the rows of one employee-month in the order the table stores them
\* (the days by ascending id; the ids of n rows are 1..n)
TableScan(tbl) ==
    [i \in 1..Cardinality(DOMAIN tbl) |-> CHOOSE d \in DOMAIN tbl : tbl[d].id = i]

\* ORDER BY day of the rows a query returns
SortedByDay(rows) == OrderByDay({ rows[i] : i \in 1..Len(rows) })

\* mutant: the rows are taken as the table returns them
query_with_status_ordered_AsStored(tbl) == TableScan(tbl)

\* SELECT id, day, status_calculated ... ORDER BY day
query_with_status_ordered(tbl) == SortedByDay(TableScan(tbl))

\* executemany("UPDATE ... SET status_calculated = ? WHERE id = ?"):
\* updates is a function from the days updated to their new status
SetStatus(tbl, updates) ==
    [d \in DOMAIN tbl |->
        IF d \in DOMAIN updates
        THEN [tbl[d] EXCEPT !.status_calculated = updates[d]]
        ELSE tbl[d]]

\* executemany("UPDATE ... SET status_calculated = ?, leave_type_used = ? WHERE id = ?")
SetStatusAndLeave(tbl, updates) ==
    [d \in DOMAIN tbl |->
        IF d \in DOMAIN updates
        THEN [tbl[d] EXCEPT !.status_calculated = updates[d][1],
                            !.leave_type_used = updates[d][2]]
        ELSE tbl[d]]

----------------------------------------------------------------------------
(* Step: initial status_calculated, 'P' or 'AB' *)

\* mutant: an empty string counts as a punch
PresenceStatus_NotNull(in_time, out_time) == IF in_time # NULL \/ out_time # NULL THEN "P" ELSE "AB"

PresenceStatus(in_time, out_time) == IF (in_time # NULL /\ in_time # "") \/ (out_time # NULL /\ out_time # "") THEN "P" ELSE "AB"

\* mutant: rows already given WO are not classified again
InitialStatusUpdates_KeepWO(tbl) ==
    [d \in { x \in DOMAIN tbl : tbl[x].status_calculated # "WO" } |->
        PresenceStatus(tbl[d].in_time, tbl[d].out_time)]

InitialStatusUpdates(tbl) ==
    [d \in DOMAIN tbl |-> PresenceStatus(tbl[d].in_time, tbl[d].out_time)]

----------------------------------------------------------------------------
(* Step: consecutive 'AB' sequences and the days after the third of a long one *)

\* mutant: an 'AB' day extends the sequence whatever its day number
RECURSIVE FindSequences_IgnoreGaps(_, _, _, _, _)
FindSequences_IgnoreGaps(tbl, records_with_status, i, sequences, current_sequence) ==
    IF i > Len(records_with_status)
    THEN IF Len(current_sequence) > 0
         THEN Append(sequences, current_sequence) ELSE sequences
    ELSE LET day == records_with_status[i] IN
         IF tbl[day].status_calculated = "AB"
         THEN FindSequences_IgnoreGaps(tbl, records_with_status, i + 1, sequences,
                                       Append(current_sequence, day))
         ELSE FindSequences_IgnoreGaps(tbl, records_with_status, i + 1,
                                       IF Len(current_sequence) > 0
                                       THEN Append(sequences, current_sequence)
                                       ELSE sequences,
                                       <<>>)

RECURSIVE FindSequences(_, _, _, _, _)
FindSequences(tbl, records_with_status, i, sequences, current_sequence) ==
    IF i > Len(records_with_status)
    THEN IF Len(current_sequence) > 0
         THEN Append(sequences, current_sequence) ELSE sequences
    ELSE LET day == records_with_status[i] IN
         IF tbl[day].status_calculated = "AB"
         THEN IF current_sequence = <<>>
                 \/ day = current_sequence[Len(current_sequence)] + 1
              THEN FindSequences(tbl, records_with_status, i + 1, sequences,
                                 Append(current_sequence, day))
              ELSE FindSequences(tbl, records_with_status, i + 1,
                                 Append(sequences, current_sequence), <<day>>)
         ELSE FindSequences(tbl, records_with_status, i + 1,
                            IF Len(current_sequence) > 0
                            THEN Append(sequences, current_sequence)
                            ELSE sequences,
                            <<>>)

\* mutant: the days after the fourth, not after the third, are marked
LongAbsenceUpdates_FromFifth(sequences) ==
    LET days == UNION { { sequences[s][i] : i \in 5..Len(sequences[s]) } :
                        s \in { t \in 1..Len(sequences) : Len(sequences[t]) > 3 } }
    IN [d \in days |-> "Absent"]

\* mutant: only sequences of more than 4 days count as long
LongAbsenceUpdates_OverFour(sequences) ==
    LET days == UNION { { sequences[s][i] : i \in 4..Len(sequences[s]) } :
                        s \in { t \in 1..Len(sequences) : Len(sequences[t]) > 4 } }
    IN [d \in days |-> "Absent"]

LongAbsenceUpdates(sequences) ==
    LET days == UNION { { sequences[s][i] : i \in 4..Len(sequences[s]) } :
                        s \in { t \in 1..Len(sequences) : Len(sequences[t]) > 3 } }
    IN [d \in days |-> "Absent"]

MarkLongAbsences(tbl) ==
    SetStatus(tbl, LongAbsenceUpdates(
        FindSequences(tbl, query_with_status_ordered(tbl), 1, <<>>, <<>>)))

----------------------------------------------------------------------------
(* Step: WO, then CL, then Absent for the days still 'AB' *)

Reverse(seq) == [i \in 1..Len(seq) |-> seq[Len(seq) + 1 - i]]

\* mutant: the 'AB' days are taken latest first
RemainingAbDays_Descending(tbl) ==
    Reverse(SelectSeq(query_with_status_ordered(tbl), LAMBDA d : tbl[d].status_calculated = "AB"))

RemainingAbDays(tbl) ==
    SelectSeq(query_with_status_ordered(tbl), LAMBDA d : tbl[d].status_calculated = "AB")

\* mutant: the quota tests admit one day too many
RECURSIVE QuotaUpdates_OneTooMany(_, _, _, _, _, _)
QuotaUpdates_OneTooMany(remaining_ab_days, i, wo_allocated, cl_allocated, wo_quota, cl_quota) ==
    IF i > Len(remaining_ab_days) THEN <<>>
    ELSE IF wo_allocated <= wo_quota
         THEN <<<<"WO", "WO">>>> \o
              QuotaUpdates_OneTooMany(remaining_ab_days, i + 1, wo_allocated + 1,
                                      cl_allocated, wo_quota, cl_quota)
         ELSE IF cl_allocated <= cl_quota
         THEN <<<<"CL", "CL">>>> \o
              QuotaUpdates_OneTooMany(remaining_ab_days, i + 1, wo_allocated,
                                      cl_allocated + 1, wo_quota, cl_quota)
         ELSE <<<<"Absent", NULL>>>> \o
              QuotaUpdates_OneTooMany(remaining_ab_days, i + 1, wo_allocated,
                                      cl_allocated, wo_quota, cl_quota)

RECURSIVE QuotaUpdates(_, _, _, _, _, _)
QuotaUpdates(remaining_ab_days, i, wo_allocated, cl_allocated, wo_quota, cl_quota) ==
    IF i > Len(remaining_ab_days) THEN <<>>
    ELSE IF wo_allocated < wo_quota
         THEN <<<<"WO", "WO">>>> \o
              QuotaUpdates(remaining_ab_days, i + 1, wo_allocated + 1,
                           cl_allocated, wo_quota, cl_quota)
         ELSE IF cl_allocated < cl_quota
         THEN <<<<"CL", "CL">>>> \o
              QuotaUpdates(remaining_ab_days, i + 1, wo_allocated,
                           cl_allocated + 1, wo_quota, cl_quota)
         ELSE <<<<"Absent", NULL>>>> \o
              QuotaUpdates(remaining_ab_days, i + 1, wo_allocated,
                           cl_allocated, wo_quota, cl_quota)

\* the quota updates as a function from the day updated to (status, leave type)
AllocateQuotas(tbl, wo_quota, cl_quota) ==
    LET remaining_ab_days == RemainingAbDays(tbl)
        quota_updates == QuotaUpdates(remaining_ab_days, 1, 0, 0, wo_quota, cl_quota)
    IN [d \in { remaining_ab_days[i] : i \in 1..Len(remaining_ab_days) } |->
           quota_updates[CHOOSE i \in 1..Len(remaining_ab_days) :
                             remaining_ab_days[i] = d]]

----------------------------------------------------------------------------
(* hospital.py: apply_leave_policy_for_month *)

HospitalWoQuota == 3
HospitalClQuota == 1

\* the attendance table of hospital.py has no leave_type_used column:
\* only status_calculated is written
HospitalPolicy(tbl) ==
    LET initial == SetStatus(tbl, InitialStatusUpdates(tbl))
        marked == MarkLongAbsences(initial)
        quota_updates == AllocateQuotas(marked, HospitalWoQuota, HospitalClQuota)
    IN SetStatus(marked, [d \in DOMAIN quota_updates |-> quota_updates[d][1]])

\* mutant: the policy goes on without rows
NoRecords_NotChecked(tbl) == FALSE

\* "if not records:" after the first SELECT of a policy
NoRecords(tbl) == DOMAIN tbl = {}

\* the invocation on month m ran to its end
Completed(m) ==
    /\ applied' = applied \cup {m}
    /\ reapplied' = IF m \in applied THEN reapplied \cup {m} ELSE reapplied

apply_leave_policy_for_month(m) ==
    /\ org = "hospital"
    /\ last' = m
    /\ IF NoRecords(attendance[m])
       THEN /\ result' = Returned("hospital", "no_records")
            /\ UNCHANGED <<attendance, applied, reapplied>>
       ELSE /\ attendance' = [attendance EXCEPT ![m] = HospitalPolicy(@)]
            /\ result' = Returned("hospital", "applied")
            /\ Completed(m)
    /\ UNCHANGED <<org, profile>>

----------------------------------------------------------------------------
(* superclinic.py: apply_staff_leave_policy *)

MinPresentDays == 9
DefaultWoQuota == 3
DefaultClQuota == 1

\* SELECT COUNT(*) ... WHERE in_time IS NOT NULL OR out_time IS NOT NULL
PresentDays(tbl) ==
    Cardinality({ d \in DOMAIN tbl : tbl[d].in_time # NULL \/ tbl[d].out_time # NULL })

\* SELECT initial_paid_wo, initial_paid_cl ...; fetchone() or (3, 1)
StaffQuotas(p) ==
    IF p = NoProfile THEN <<DefaultWoQuota, DefaultClQuota>>
    ELSE <<p.initial_paid_wo, p.initial_paid_cl>>

\* UPDATE ... SET status_calculated = 'Absent' WHERE in_time IS NULL AND out_time IS NULL
MarkIneligibleAbsent(tbl) ==
    SetStatus(tbl, [d \in { x \in DOMAIN tbl :
                              tbl[x].in_time = NULL /\ tbl[x].out_time = NULL } |->
                       "Absent"])

\* mutant: more than 9 present days are asked for
IsEligibleForPaidLeaves_Strict(present_days) == present_days > MinPresentDays

IsEligibleForPaidLeaves(present_days) == present_days >= MinPresentDays

StaffPolicy(tbl, p) ==
    LET is_eligible_for_paid_leaves == IsEligibleForPaidLeaves(PresentDays(tbl))
        quotas == StaffQuotas(p)
        initial == SetStatus(tbl, InitialStatusUpdates(tbl))
        marked == MarkLongAbsences(initial)
    IN IF ~is_eligible_for_paid_leaves
       THEN MarkIneligibleAbsent(initial)
       ELSE SetStatusAndLeave(marked, AllocateQuotas(marked, quotas[1], quotas[2]))

apply_staff_leave_policy(m) ==
    IF NoRecords(attendance[m])
    THEN /\ result' = Returned("staff", "no_records")
         /\ UNCHANGED <<attendance, applied, reapplied, profile>>
    ELSE /\ attendance' = [attendance EXCEPT ![m] = StaffPolicy(@, profile)]
         /\ result' = Returned("staff",
                                IF IsEligibleForPaidLeaves(PresentDays(attendance[m]))
                                THEN "applied" ELSE "not_eligible")
         /\ Completed(m)
         /\ UNCHANGED profile

----------------------------------------------------------------------------
(* superclinic.py: apply_consultant_leave_policy *)

CutoffDate == <<2023, 1, 1>>

DateNotBefore(a, b) ==
    \/ a[1] > b[1]
    \/ a[1] = b[1] /\ a[2] > b[2]
    \/ a[1] = b[1] /\ a[2] = b[2] /\ a[3] >= b[3]

QuotaFromCutoff == 12
QuotaBeforeCutoff == 13

get_consultant_cl_quota(date_of_joining) ==
    IF date_of_joining = NoDate THEN QuotaFromCutoff
    ELSE IF date_of_joining = BadDate THEN QuotaFromCutoff
    ELSE IF DateNotBefore(date_of_joining, CutoffDate)
         THEN QuotaFromCutoff ELSE QuotaBeforeCutoff

\* cl_quota as the invocation uses it: the stored one, or the one derived from
\* the joining date when the stored one is NULL
ConsultantClQuota(p) ==
    IF p.cl_calendar_year_quota = NullQuota
    THEN get_consultant_cl_quota(p.date_of_joining)
    ELSE p.cl_calendar_year_quota

\* mutant: every 'AB' day is given CL, whatever the balance
ClToAllocate_NoCap(ab_records, remaining_cl) == Len(ab_records)

\* the days given CL: the first cl_to_allocate of the 'AB' days, in day order
ClToAllocate(ab_records, remaining_cl) == Min(Len(ab_records), remaining_cl)

ConsultantAllocation(tbl, remaining_cl) ==
    LET ab_records == RemainingAbDays(tbl)
        cl_to_allocate == ClToAllocate(ab_records, remaining_cl)
        cl_updates == [d \in { ab_records[i] : i \in 1..cl_to_allocate } |->
                          <<"CL", "CL">>]
        absent_updates == [d \in { ab_records[i] :
                                     i \in (cl_to_allocate + 1)..Len(ab_records) } |->
                              "Absent"]
    IN SetStatus(SetStatusAndLeave(tbl, cl_updates), absent_updates)

\* mutant: the counter grows by the number of 'AB' days
ClGranted_Unclamped(tbl, remaining_cl) ==
    IF remaining_cl > 0
    THEN Len(RemainingAbDays(SetStatus(tbl, InitialStatusUpdates(tbl))))
    ELSE 0

\* mutant: the CL the month already holds is taken off what is added
ClGranted_NetOfMonth(tbl, remaining_cl) ==
    IF remaining_cl > 0
    THEN ClToAllocate(RemainingAbDays(SetStatus(tbl, InitialStatusUpdates(tbl))),
                      remaining_cl)
         - Cardinality({ d \in DOMAIN tbl : tbl[d].status_calculated = "CL" })
    ELSE 0

\* number of rows in cl_updates
ClGranted(tbl, remaining_cl) ==
    IF remaining_cl > 0
    THEN ClToAllocate(RemainingAbDays(SetStatus(tbl, InitialStatusUpdates(tbl))),
                      remaining_cl)
    ELSE 0

ConsultantPolicy(tbl, p) ==
    LET remaining_cl == ConsultantClQuota(p) - p.cl_used_this_year
        initial == SetStatus(tbl, InitialStatusUpdates(tbl))
    IN IF remaining_cl > 0
       THEN ConsultantAllocation(initial, remaining_cl)
       ELSE initial

apply_consultant_leave_policy(m) ==
    IF profile = NoProfile
    THEN /\ result' = Returned("consultant", "not_found")
         /\ UNCHANGED <<attendance, applied, reapplied, profile>>
    ELSE LET cl_quota == ConsultantClQuota(profile)
             cl_used == profile.cl_used_this_year
             remaining_cl == cl_quota - cl_used
         IN IF NoRecords(attendance[m])
            THEN /\ profile' = [profile EXCEPT !.cl_calendar_year_quota = cl_quota]
                 /\ result' = Returned("consultant", "no_records")
                 /\ UNCHANGED <<attendance, applied, reapplied>>
            ELSE /\ attendance' = [attendance EXCEPT ![m] = ConsultantPolicy(@, profile)]
                 /\ profile' = [profile EXCEPT
                        !.cl_calendar_year_quota = cl_quota,
                        !.cl_used_this_year = cl_used + ClGranted(attendance[m], remaining_cl)]
                 /\ result' = Returned("consultant", "applied")
                 /\ Completed(m)

----------------------------------------------------------------------------
(* superclinic.py: apply_appropriate_leave_policy *)

\* mutant: every employee found in the master table is taken for a consultant
IsConsultantCategory_AnyFound(p) == p # NoProfile

\* "if result:" and "if category == 'Consultant':"
IsConsultantCategory(p) == p # NoProfile /\ p.category = "Consultant"

apply_appropriate_leave_policy(m) ==
    /\ org = "superclinic"
    /\ last' = m
    /\ IF IsConsultantCategory(profile)
       THEN apply_consultant_leave_policy(m)
       ELSE apply_staff_leave_policy(m)
    /\ UNCHANGED org

----------------------------------------------------------------------------
(* The same functions when a store operation raises sqlite3.Error.  Every    *)
(* pass ends with conn.commit(); the except clause logs the error and the    *)
(* finally clause closes the connection, which discards what the failing     *)
(* pass wrote and keeps what the passes before it committed.                 *)

\* the store operation that raises: sqlite3.connect, or an execute,
\* executemany or commit of the named pass
HospitalFaults == {"connect", "classify", "long_run", "allocate"}
StaffFaults == {"connect", "classify", "long_run", "allocate"}
ConsultantFaults == {"connect", "classify", "allocate", "counter", "absent"}
Faults == HospitalFaults \cup StaffFaults \cup ConsultantFaults

\* the table as the last commit before the failing pass left it
HospitalPersisted(tbl, fault) ==
    LET initial == SetStatus(tbl, InitialStatusUpdates(tbl))
        marked == MarkLongAbsences(initial)
    IN IF fault = "long_run" THEN initial
       ELSE IF fault = "allocate" THEN marked
       ELSE tbl

\* sqlite3.connect and conn.cursor() stand before the try: their exception
\* reaches the caller; those of the passes are caught and printed
apply_leave_policy_for_month_failing(m, fault) ==
    /\ org = "hospital"
    /\ fault \in HospitalFaults
    /\ fault \in {"long_run", "allocate"} => DOMAIN attendance[m] # {}
    /\ last' = m
    /\ attendance' = [attendance EXCEPT ![m] = HospitalPersisted(@, fault)]
    /\ result' = IF fault = "connect" THEN Raised ELSE Returned("hospital", "error")
    /\ UNCHANGED <<org, profile, applied, reapplied>>

\* "long_run" stands for the pass after the classification: the UPDATE of
\* the ineligible branch, or the sequence query and its UPDATE
StaffPersisted(tbl, fault) ==
    LET initial == SetStatus(tbl, InitialStatusUpdates(tbl))
        marked == MarkLongAbsences(initial)
    IN IF fault = "long_run" THEN initial
       ELSE IF fault = "allocate" THEN marked
       ELSE tbl

apply_staff_leave_policy_failing(m, fault) ==
    /\ fault \in StaffFaults
    /\ fault \in {"long_run", "allocate"} => DOMAIN attendance[m] # {}
    /\ fault = "allocate" => IsEligibleForPaidLeaves(PresentDays(attendance[m]))
    /\ attendance' = [attendance EXCEPT ![m] = StaffPersisted(@, fault)]
    /\ result' = IF fault = "connect" THEN Raised ELSE Returned("staff", "error")
    /\ UNCHANGED <<profile, applied, reapplied>>

\* the month after the commit of cl_updates
ConsultantClUpdated(tbl, remaining_cl) ==
    LET ab_records == RemainingAbDays(tbl)
        cl_to_allocate == ClToAllocate(ab_records, remaining_cl)
    IN SetStatusAndLeave(tbl, [d \in { ab_records[i] : i \in 1..cl_to_allocate } |->
                                  <<"CL", "CL">>])

ConsultantPersisted(tbl, p, fault) ==
    LET initial == SetStatus(tbl, InitialStatusUpdates(tbl))
        remaining_cl == ConsultantClQuota(p) - p.cl_used_this_year
    IN IF fault = "allocate" THEN initial
       ELSE IF fault \in {"counter", "absent"} THEN ConsultantClUpdated(initial, remaining_cl)
       ELSE tbl

\* the quota derived for a NULL cl_calendar_year_quota is committed before the
\* first pass; the counter is committed after cl_updates and before
\* absent_updates
apply_consultant_leave_policy_failing(m, fault) ==
    LET tbl == attendance[m]
        remaining_cl == ConsultantClQuota(profile) - profile.cl_used_this_year
        ab_records == RemainingAbDays(SetStatus(tbl, InitialStatusUpdates(tbl)))
        cl_to_allocate == ClToAllocate(ab_records, remaining_cl)
    IN /\ fault \in ConsultantFaults
       /\ fault \in {"allocate", "counter", "absent"} =>
             DOMAIN tbl # {} /\ remaining_cl > 0
       /\ fault = "counter" => cl_to_allocate > 0
       /\ fault = "absent" => Len(ab_records) > cl_to_allocate
       /\ attendance' = [attendance EXCEPT ![m] = ConsultantPersisted(@, profile, fault)]
       /\ profile' =
             IF fault = "connect" THEN profile
             ELSE [profile EXCEPT
                     !.cl_calendar_year_quota = ConsultantClQuota(profile),
                     !.cl_used_this_year =
                         IF fault = "absent" THEN @ + cl_to_allocate ELSE @]
       /\ result' = IF fault = "connect" THEN Raised ELSE Returned("consultant", "error")
       /\ UNCHANGED <<applied, reapplied>>

\* the dispatcher has try/finally and no except: what its own SELECT raises,
\* fault "dispatch", reaches the caller, like what the connect of a policy raises
apply_appropriate_leave_policy_failing(m, fault) ==
    /\ org = "superclinic"
    /\ last' = m
    /\ IF fault = "dispatch"
       THEN /\ result' = Raised
            /\ UNCHANGED <<attendance, profile, applied, reapplied>>
       ELSE IF IsConsultantCategory(profile)
            THEN apply_consultant_leave_policy_failing(m, fault)
            ELSE apply_staff_leave_policy_failing(m, fault)
    /\ UNCHANGED org

----------------------------------------------------------------------------
(* app.py: "Apply Policy for Selected Month" and "Apply Policy for ALL     *)
(* Months", and superclinic.py: apply_leave_policy_for_all_employees_sc.    *)
(* The loops run over all employees; the tables of this model are those of  *)
(* ModelledEmployee, the rows of the other employees are not represented.   *)

ModelledEmployee == "E1"
Employees == {"E1", "E2", "E3"}

\* orders in which SELECT DISTINCT employee_code returns the employees
EmployeeOrders == { <<"E1", "E2", "E3">>, <<"E2", "E1", "E3">>, <<"E3", "E2", "E1">> }

\* SELECT DISTINCT month_year ... ORDER BY month_year: text order
MonthsOrdered == <<"Jul 2025", "Jun 2025">>

NoBatch ==
    [kind |-> "idle", month |-> NoMonth, months |-> <<>>, employees |-> <<>>,
     listed |-> {}, invoked |-> {}, raised |-> {}, errors |-> {}]

\* the employees with attendance rows for month m (the super clinic joins
\* the master table); the other employees have rows in every month
ListEmployees(m, order) ==
    SelectSeq(order, LAMBDA e :
        \/ e # ModelledEmployee
        \/ /\ DOMAIN attendance[m] # {}
           /\ org = "superclinic" => profile # NoProfile)

ListedPairs(m, order) ==
    { <<ListEmployees(m, order)[i], m>> : i \in 1..Len(ListEmployees(m, order)) }

\* the button "Apply Policy for Selected Month", up to its loop
apply_policy_selected_month(m, order) ==
    /\ batch.kind = "idle"
    /\ batch' = [batch EXCEPT !.kind = "selected", !.month = m,
                              !.employees = ListEmployees(m, order),
                              !.listed = ListedPairs(m, order)]
    /\ UNCHANGED <<org, profile, attendance, applied, reapplied, last, result, running, colleague>>

\* the button "Apply Policy for ALL Months", up to the loop of its first month
apply_policy_all_months(order) ==
    /\ batch.kind = "idle"
    /\ batch' = [batch EXCEPT !.kind = "all", !.month = Head(MonthsOrdered),
                              !.months = Tail(MonthsOrdered),
                              !.employees = ListEmployees(Head(MonthsOrdered), order),
                              !.listed = ListedPairs(Head(MonthsOrdered), order)]
    /\ UNCHANGED <<org, profile, attendance, applied, reapplied, last, result, running, colleague>>

\* the store operation that may raise during an invocation made by a loop
BatchFaults == {"none", "connect", "classify"}

\* apply_policy_func(emp_code, month) for the modelled employee
InvokePolicy(m, fault) ==
    IF org = "hospital"
    THEN IF fault = "none" THEN apply_leave_policy_for_month(m)
         ELSE apply_leave_policy_for_month_failing(m, fault)
    ELSE IF fault = "none" THEN apply_appropriate_leave_policy(m)
         ELSE apply_appropriate_leave_policy_failing(m, fault)

\* the same call for another employee: it returns, or its exception reaches
\* the loop
InvokePolicyOfOther(m) ==
    /\ last' = m
    /\ result' \in {Returned("<other>", "applied"), Raised}
    /\ UNCHANGED <<org, profile, attendance, applied, reapplied>>

\* where an exception of the call for employee e leaves the loop:
\* app.py 343-346 catches it per employee (hospital, selected month);
\* app.py 397-400 catches it per month (hospital, all months);
\* superclinic.py 961-967 catches it around the loop over the employees,
\* logs it and returns normally
AfterRaise(e, m) ==
    LET b == [batch EXCEPT !.invoked = @ \cup {<<e, m>>}, !.raised = @ \cup {<<e, m>>}]
    IN IF org = "hospital" /\ batch.kind = "selected"
       THEN [b EXCEPT !.employees = Tail(@), !.errors = @ \cup {<<"employee", e, m>>}]
       ELSE IF org = "hospital"
       THEN [b EXCEPT !.employees = <<>>, !.errors = @ \cup {<<"month", m>>}]
       ELSE [b EXCEPT !.employees = <<>>, !.errors = @ \cup {<<"log", m>>}]

\* one iteration of the loop over the employees of the current month
policy_loop_iteration ==
    /\ batch.kind \in {"selected", "all"}
    /\ batch.employees # <<>>
    /\ LET e == Head(batch.employees)
           m == batch.month
       IN /\ IF e = ModelledEmployee
             THEN \E fault \in BatchFaults : InvokePolicy(m, fault)
             ELSE InvokePolicyOfOther(m)
          /\ batch' = IF result'.raised
                      THEN AfterRaise(e, m)
                      ELSE [batch EXCEPT !.employees = Tail(@),
                                         !.invoked = @ \cup {<<e, m>>}]
    /\ UNCHANGED <<running, colleague>>

\* "for i, month in enumerate(months)": the next month of the all-months loop
policy_loop_next_month(order) ==
    /\ batch.kind = "all"
    /\ batch.employees = <<>>
    /\ batch.months # <<>>
    /\ batch' = [batch EXCEPT !.month = Head(batch.months),
                              !.months = Tail(@),
                              !.employees = ListEmployees(Head(batch.months), order),
                              !.listed = @ \cup ListedPairs(Head(batch.months), order)]
    /\ UNCHANGED <<org, profile, attendance, applied, reapplied, last, result, running, colleague>>

\* the loops are through
policy_loop_done ==
    /\ batch.kind \in {"selected", "all"}
    /\ batch.employees = <<>>
    /\ batch.months = <<>>
    /\ batch' = [batch EXCEPT !.kind = "done"]
    /\ UNCHANGED <<org, profile, attendance, applied, reapplied, last, result, running, colleague>>

----------------------------------------------------------------------------
(* superclinic.py: apply_consultant_leave_policy, invoked from two sessions
   of the front end at a time. Each statement and each commit of an
   invocation is a step of its own; the steps that touch only the rows of the
   invocation's month are taken together. *)

Idle == [pc |-> "idle"]
NoRunning == [m \in MonthKeys |-> Idle]

\* 552-574: SELECT date_of_joining, cl_calendar_year_quota, cl_used_this_year
consultant_read(m) ==
    /\ org = "superclinic"
    /\ IsConsultantCategory(profile)
    /\ running[m] = Idle
    /\ running' = [running EXCEPT
                      ![m] = [pc |-> "read", cl_quota |-> ConsultantClQuota(profile),
                              cl_used |-> profile.cl_used_this_year, granted |-> 0]]
    /\ profile' = [profile EXCEPT !.cl_calendar_year_quota = ConsultantClQuota(profile)]
    /\ last' = m
    /\ UNCHANGED <<org, attendance, applied, reapplied, result, batch, colleague>>

\* 589-646: the classification and the cl_updates of the month
consultant_allocate(m) ==
    /\ running[m].pc = "read"
    /\ LET remaining_cl == running[m].cl_quota - running[m].cl_used
           initial == SetStatus(attendance[m], InitialStatusUpdates(attendance[m]))
           ab_records == RemainingAbDays(initial)
           cl_to_allocate == ClToAllocate(ab_records, remaining_cl)
           cl_updates == [d \in { ab_records[i] : i \in 1..cl_to_allocate } |-> <<"CL", "CL">>]
       IN IF NoRecords(attendance[m])
          THEN /\ running' = [running EXCEPT ![m] = Idle]
               /\ result' = Returned("consultant", "no_records")
               /\ UNCHANGED attendance
          ELSE /\ attendance' = [attendance EXCEPT
                      ![m] = IF remaining_cl > 0 THEN SetStatusAndLeave(initial, cl_updates)
                             ELSE initial]
               /\ running' = [running EXCEPT
                      ![m] = [@ EXCEPT !.pc = IF remaining_cl > 0 THEN "allocated" ELSE "classified",
                                       !.granted = IF remaining_cl > 0 THEN cl_to_allocate ELSE 0]]
               /\ UNCHANGED result
    /\ UNCHANGED <<org, profile, applied, reapplied, last, batch, colleague>>

\* 648-669: new_cl_used = cl_used + len(cl_updates) is written when cl_updates
\* is not empty, then the days still 'AB' are marked Absent
consultant_finish(m) ==
    /\ running[m].pc \in {"allocated", "classified"}
    /\ profile' = IF running[m].granted > 0
                  THEN [profile EXCEPT
                           !.cl_used_this_year = running[m].cl_used + running[m].granted]
                  ELSE profile
    /\ attendance' = [attendance EXCEPT
           ![m] = IF running[m].pc = "allocated"
                  THEN SetStatus(@, [d \in { x \in DOMAIN @ : @[x].status_calculated = "AB" } |->
                                        "Absent"])
                  ELSE @]
    /\ running' = [running EXCEPT ![m] = Idle]
    /\ result' = Returned("consultant", "applied")
    /\ Completed(m)
    /\ UNCHANGED <<org, last, batch, colleague>>

----------------------------------------------------------------------------
(* The summary report: one line per employee and month *)

\* COUNT(CASE WHEN status_calculated = ? THEN 1 END), SUM(CASE WHEN ... THEN 1 ELSE 0 END)
SummaryCount(tbl, status) ==
    Cardinality({ d \in DOMAIN tbl : tbl[d].status_calculated = status })

\* (3 - ...) as Unused_WO
Unused_WO(tbl) == 3 - SummaryCount(tbl, "WO")

\* (1 - ...) as Unused_CL
Unused_CL(tbl) == 1 - SummaryCount(tbl, "CL")

----------------------------------------------------------------------------
(* The statements of a policy over the whole tables: the attendance rows of
   both employees and of every month, and both master rows *)

ColleagueCode == "E2"

\* the rows of the attendance table an employee contributes
RowsOf(employee_code, tables) ==
    UNION { { [employee_code |-> employee_code, month_year |-> m, row |-> tables[m][d]] :
              d \in DOMAIN tables[m] } : m \in MonthKeys }

AttendanceTable == RowsOf(ModelledEmployee, attendance) \cup RowsOf(ColleagueCode, colleague.attendance)

\* mutant: the month alone selects the rows
SelectRecords_AnyEmployee(rows, employee_code, month_year) == { r \in rows : r.month_year = month_year }

\* SELECT ... WHERE employee_code = ? AND month_year = ?
SelectRecords(rows, employee_code, month_year) == { r \in rows : r.employee_code = employee_code /\ r.month_year = month_year }

\* the rows fetched, by day: UNIQUE(employee_code, month_year, day)
AsTable(records) ==
    [d \in { r.row.day : r \in records } |-> (CHOOSE r \in records : r.row.day = d).row]

\* executemany("UPDATE ... SET status_calculated = ?[, leave_type_used = ?]
\* WHERE id = ?") with the ids of the rows fetched
UpdateById(rows, records, tbl) ==
    { IF r \in records
      THEN [r EXCEPT !.row.status_calculated = tbl[r.row.day].status_calculated,
                     !.row.leave_type_used = tbl[r.row.day].leave_type_used]
      ELSE r : r \in rows }

\* UPDATE ... SET status_calculated = 'Absent' WHERE employee_code = ? AND
\* month_year = ? AND in_time IS NULL AND out_time IS NULL
UpdateIneligibleAbsent(rows, employee_code, month_year) ==
    { IF /\ r.employee_code = employee_code /\ r.month_year = month_year
         /\ r.row.in_time = NULL /\ r.row.out_time = NULL
      THEN [r EXCEPT !.row.status_calculated = "Absent"]
      ELSE r : r \in rows }

\* UPDATE employees SET ... WHERE employee_code = ?
UpdateEmployee(profiles, employee_code, p) ==
    [c \in DOMAIN profiles |-> IF c = employee_code THEN p ELSE profiles[c]]

\* the attendance table after the policy of the employee ran on the month
AttendanceAfterPolicy(rows, employee_code, month_year, p) ==
    LET records == SelectRecords(rows, employee_code, month_year)
        tbl == AsTable(records)
    IN IF org = "hospital" THEN UpdateById(rows, records, HospitalPolicy(tbl))
       ELSE IF IsConsultantCategory(p) THEN UpdateById(rows, records, ConsultantPolicy(tbl, p))
       ELSE IF IsEligibleForPaidLeaves(PresentDays(tbl))
       THEN UpdateById(rows, records, StaffPolicy(tbl, p))
       ELSE UpdateIneligibleAbsent(
                UpdateById(rows, records, SetStatus(tbl, InitialStatusUpdates(tbl))),
                employee_code, month_year)

\* the employees table after it
EmployeesAfterPolicy(profiles, rows, employee_code, month_year) ==
    LET p == profiles[employee_code]
        tbl == AsTable(SelectRecords(rows, employee_code, month_year))
    IN IF org = "superclinic" /\ IsConsultantCategory(p)
       THEN UpdateEmployee(profiles, employee_code,
                [p EXCEPT !.cl_calendar_year_quota = ConsultantClQuota(p),
                          !.cl_used_this_year =
                              @ + ClGranted(tbl, ConsultantClQuota(p) - p.cl_used_this_year)])
       ELSE profiles

\* the rows of one employee, by month and day
TablesOf(rows, employee_code) ==
    [m \in MonthKeys |->
        AsTable({ r \in rows : r.employee_code = employee_code /\ r.month_year = m })]

\* an invocation for the modelled employee on a month that has rows
apply_policy_in_store(m) ==
    /\ ~NoRecords(attendance[m])
    /\ LET rows == AttendanceAfterPolicy(AttendanceTable, ModelledEmployee, m, profile)
           profiles == EmployeesAfterPolicy(
                           [c \in {ModelledEmployee, ColleagueCode} |->
                               IF c = ModelledEmployee THEN profile ELSE colleague.profile],
                           AttendanceTable, ModelledEmployee, m)
       IN /\ attendance' = TablesOf(rows, ModelledEmployee)
          /\ profile' = profiles[ModelledEmployee]
          /\ colleague' = [profile |-> profiles[ColleagueCode],
                           attendance |-> TablesOf(rows, ColleagueCode)]
    /\ last' = m
    /\ result' = Returned(IF org = "hospital" THEN "hospital"
                          ELSE IF IsConsultantCategory(profile) THEN "consultant"
                          ELSE "staff", "applied")
    /\ Completed(m)
    /\ UNCHANGED <<org, batch, running>>

----------------------------------------------------------------------------
(* Initial states: the tables as extraction leaves them *)

\* how a present day is punched: in and out, in only, out only
BothPunches == <<SomeTime, SomeTime>>
PunchForms == { BothPunches, <<SomeTime, NULL>>, <<NULL, SomeTime>> }

\* the rows extraction stores for days 1..n: status_calculated and
\* leave_type_used NULL, the times parsed or NULL
MonthRows(n, present, form) ==
    [d \in 1..n |->
        IF d \in present THEN NewRow(d, form[1], form[2]) ELSE NewRow(d, NULL, NULL)]

NoRows == MonthRows(0, {}, <<NULL, NULL>>)

\* no second employee in the database
NoColleague == [profile |-> NoProfile, attendance |-> [m \in MonthKeys |-> NoRows]]

\* the row parse_excel_and_store inserts for a new hospital employee
HospitalProfile ==
    [category |-> "Non-Medical", date_of_joining |-> NoDate,
     initial_paid_cl |-> 1, initial_paid_wo |-> 3,
     cl_calendar_year_quota |-> NullQuota, cl_used_this_year |-> 0]

\* the category categorize_employee gives by default
StaffCategory == "Non-Medical"

WoQuotas == 0..3
ClQuotas == 0..1

StaffProfiles ==
    { [category |-> StaffCategory, date_of_joining |-> NoDate,
       initial_paid_cl |-> cl, initial_paid_wo |-> wo,
       cl_calendar_year_quota |-> NullQuota, cl_used_this_year |-> 0] :
      wo \in WoQuotas, cl \in ClQuotas }

\* the other categories categorize_employee gives, a category in another
\* spelling, and a NULL category, with the quotas inserted for staff
OtherCategories == {"RMO", "Paramedical", "consultant", NULL}

OtherProfiles ==
    { [category |-> c, date_of_joining |-> NoDate,
       initial_paid_cl |-> 1, initial_paid_wo |-> 3,
       cl_calendar_year_quota |-> NullQuota, cl_used_this_year |-> 0] :
      c \in OtherCategories }

JoiningDates == { NoDate, <<2022, 12, 31>>, <<2023, 1, 1>> }

\* consultants: initial_paid_wo = initial_paid_cl = 0; the annual quota stored
\* with 0 <= used <= quota, or NULL (then derived from the joining date) with
\* nothing used yet
ConsultantProfiles ==
    { [category |-> "Consultant", date_of_joining |-> NoDate,
       initial_paid_cl |-> 0, initial_paid_wo |-> 0,
       cl_calendar_year_quota |-> q, cl_used_this_year |-> u] :
      q \in 1..MaxYearQuota, u \in 0..MaxYearQuota }
    \cup
    { [category |-> "Consultant", date_of_joining |-> doj,
       initial_paid_cl |-> 0, initial_paid_wo |-> 0,
       cl_calendar_year_quota |-> NullQuota, cl_used_this_year |-> u] :
      doj \in JoiningDates, u \in {0} }

\* nothing invoked yet
InitIdle ==
    /\ applied = {}
    /\ reapplied = {}
    /\ last = NoMonth
    /\ result = NoResult
    /\ batch = NoBatch
    /\ running = NoRunning

\* and the modelled employee alone in the database
InitHistory ==
    /\ InitIdle
    /\ colleague = NoColleague

\* one exported month of MaxDay days; the other month key has no rows
InitHospital ==
    /\ org = "hospital"
    /\ profile = HospitalProfile
    /\ \E present \in SUBSET (1..MaxDay), form \in PunchForms :
          attendance = [m \in MonthKeys |->
                           IF m = "Jun 2025" THEN MonthRows(MaxDay, present, form)
                           ELSE NoRows]
    /\ InitHistory

InitStaff ==
    /\ org = "superclinic"
    /\ profile \in StaffProfiles \cup {NoProfile}
    /\ \E present \in SUBSET (1..MaxDay), form \in {BothPunches} :
          attendance = [m \in MonthKeys |->
                           IF m = "Jun 2025" THEN MonthRows(MaxDay, present, form)
                           ELSE NoRows]
    /\ InitHistory

\* two exported months, of ConsDays and of ShortDays days
InitConsultant ==
    /\ org = "superclinic"
    /\ profile \in { p \in ConsultantProfiles :
                       p.cl_calendar_year_quota # NullQuota =>
                           p.cl_used_this_year <= p.cl_calendar_year_quota }
    /\ \E p1 \in SUBSET (1..ConsDays), p2 \in SUBSET (1..ShortDays),
          form \in {BothPunches} :
          attendance = [m \in MonthKeys |->
                           IF m = "Jun 2025" THEN MonthRows(ConsDays, p1, form)
                           ELSE MonthRows(ShortDays, p2, form)]
    /\ InitHistory

Init == InitHospital \/ InitStaff

Next ==
    \/ \E m \in MonthKeys : apply_leave_policy_for_month(m) /\ UNCHANGED <<batch, running, colleague>>
    \/ \E m \in MonthKeys : apply_appropriate_leave_policy(m) /\ UNCHANGED <<batch, running, colleague>>

Spec == Init /\ [][Next]_vars

NextConsultant ==
    \E m \in MonthKeys : apply_appropriate_leave_policy(m) /\ UNCHANGED <<batch, running, colleague>>

SpecConsultant == InitConsultant /\ [][NextConsultant]_vars

\* employees of every category, and an employee code with no master row; a
\* month of MaxDay days whose absences lie in the first ConsDays days, and a
\* month of ShortDays days or without rows
InitDispatch ==
    /\ org = "superclinic"
    /\ profile \in StaffProfiles \cup OtherProfiles \cup ConsultantProfiles \cup {NoProfile}
    /\ \E a1 \in SUBSET (1..ConsDays), n2 \in {0, ShortDays} :
       \E p2 \in SUBSET (1..n2), form \in {BothPunches} :
          attendance = [m \in MonthKeys |->
                           IF m = "Jun 2025"
                           THEN MonthRows(MaxDay, (1..MaxDay) \ a1, form)
                           ELSE MonthRows(n2, p2, form)]
    /\ InitHistory

\* the hospital employee with the months of InitDispatch
InitSmallHospital ==
    /\ org = "hospital"
    /\ profile = HospitalProfile
    /\ \E a1 \in SUBSET (1..ConsDays), n2 \in {0, ShortDays} :
       \E p2 \in SUBSET (1..n2), form \in {BothPunches} :
          attendance = [m \in MonthKeys |->
                           IF m = "Jun 2025"
                           THEN MonthRows(MaxDay, (1..MaxDay) \ a1, form)
                           ELSE MonthRows(n2, p2, form)]
    /\ InitHistory

\* the three policies: the hospital's, and through the dispatcher the staff
\* and the consultant policy
InitVariants == InitSmallHospital \/ InitDispatch

SpecVariants == InitVariants /\ [][Next]_vars

\* a staff employee with the default quotas, and a consultant with nothing
\* used of a stored or of a not yet derived annual quota
FaultProfiles ==
    { p \in StaffProfiles : p.initial_paid_wo = 3 /\ p.initial_paid_cl = 1 }
    \cup { p \in ConsultantProfiles :
             /\ p.cl_used_this_year = 0
             /\ p.cl_calendar_year_quota \in {MaxYearQuota, NullQuota}
             /\ p.date_of_joining = NoDate }

InitSmallSuperclinic ==
    /\ org = "superclinic"
    /\ profile \in FaultProfiles
    /\ \E a1 \in SUBSET (1..ConsDays), p2 \in SUBSET (1..ShortDays),
          form \in {BothPunches} :
          attendance = [m \in MonthKeys |->
                           IF m = "Jun 2025"
                           THEN MonthRows(MaxDay, (1..MaxDay) \ a1, form)
                           ELSE MonthRows(ShortDays, p2, form)]
    /\ InitHistory

\* invocations that run to their end and invocations in which the store fails
InitFault == InitSmallHospital \/ InitSmallSuperclinic

NextFault ==
    \/ \E m \in MonthKeys : apply_leave_policy_for_month(m) /\ UNCHANGED <<batch, running, colleague>>
    \/ \E m \in MonthKeys : apply_appropriate_leave_policy(m) /\ UNCHANGED <<batch, running, colleague>>
    \/ \E m \in MonthKeys, fault \in HospitalFaults :
          apply_leave_policy_for_month_failing(m, fault) /\ UNCHANGED <<batch, running, colleague>>
    \/ \E m \in MonthKeys, fault \in Faults \cup {"dispatch"} :
          apply_appropriate_leave_policy_failing(m, fault) /\ UNCHANGED <<batch, running, colleague>>

SpecFault == InitFault /\ [][NextFault]_vars

\* the batch loops, over a month of MaxDay days with the first ConsDays days or
\* day 1 alone absent, and a month of ShortDays absent days or without rows
InitBatch ==
    /\ \/ org = "hospital" /\ profile = HospitalProfile
       \/ org = "superclinic" /\ profile \in FaultProfiles
    /\ \E a1 \in {{1}, 1..ConsDays}, n2 \in {0, ShortDays} :
          attendance = [m \in MonthKeys |->
                           IF m = "Jun 2025"
                           THEN MonthRows(MaxDay, (1..MaxDay) \ a1, BothPunches)
                           ELSE MonthRows(n2, {}, BothPunches)]
    /\ InitHistory

NextBatch ==
    \/ \E m \in MonthKeys, order \in EmployeeOrders : apply_policy_selected_month(m, order)
    \/ \E order \in EmployeeOrders : apply_policy_all_months(order)
    \/ policy_loop_iteration
    \/ \E order \in EmployeeOrders : policy_loop_next_month(order)
    \/ policy_loop_done

SpecBatch == InitBatch /\ [][NextBatch]_vars

----------------------------------------------------------------------------
(* Extraction: a report sheet of one employee-month is parsed and stored *)

\* range(1, 32): the highest column index the super clinic reads as a day
LastDayColumn == 31
\* the day count get_days_in_month assumes when the month text has no two parts
AssumedDays == 31

\* month_year_str.strip().split(): the month name and the year of a month key
MonthParts(month_year_str) ==
    IF month_year_str = "Jun 2025" THEN <<"Jun", 2025>>
    ELSE IF month_year_str = "Jul 2025" THEN <<"Jul", 2025>>
    ELSE IF month_year_str = "Nov 2025" THEN <<"Nov", 2025>>
    ELSE IF month_year_str = "Dec 2025" THEN <<"Dec", 2025>>
    ELSE IF month_year_str = "Jan 2026" THEN <<"Jan", 2026>>
    ELSE <<month_year_str>>

month_map ==
    [n \in {"Jan", "Feb", "Mar", "Apr", "May", "Jun",
            "Jul", "Aug", "Sep", "Oct", "Nov", "Dec"} |->
        CASE n = "Jan" -> 1 [] n = "Feb" -> 2 [] n = "Mar" -> 3 [] n = "Apr" -> 4
          [] n = "May" -> 5 [] n = "Jun" -> 6 [] n = "Jul" -> 7 [] n = "Aug" -> 8
          [] n = "Sep" -> 9 [] n = "Oct" -> 10 [] n = "Nov" -> 11 [] n = "Dec" -> 12]

\* calendar.monthrange(year, month)[1]
monthrange(year, month) ==
    IF month = 2
    THEN IF (year % 4 = 0 /\ year % 100 # 0) \/ year % 400 = 0 THEN 29 ELSE 28
    ELSE IF month \in {4, 6, 9, 11} THEN 30 ELSE 31

get_days_in_month(month_year_str) ==
    LET parts == MonthParts(month_year_str)
    IN IF Len(parts) < 2 THEN AssumedDays
       ELSE LET month_name == parts[Len(parts) - 1]
                year == parts[Len(parts)]
                month_num == IF month_name \in DOMAIN month_map
                             THEN month_map[month_name] ELSE 1
            IN monthrange(year, month_num)

\* a sheet: the number of columns of the frame (column 0 holds the row
\* labels, column d the punches of day d) and the days with both punches
SheetColumns == {31, 32}
PunchedThrough == {10, 29}
Sheets ==
    { [columns |-> n, punched |-> 1..p] : n \in SheetColumns, p \in PunchedThrough }

SheetRow(sheet, day) ==
    IF day \in sheet.punched THEN NewRow(day, SomeTime, SomeTime)
    ELSE NewRow(day, NULL, NULL)

\* INSERT OR REPLACE under UNIQUE(employee_code, month_year, day): a stored
\* row of the same day is replaced, every other stored row stays
\* and the rows stored now get ids above every id given before
InsertOrReplace(tbl, rows) ==
    LET kept == DOMAIN tbl \ DOMAIN rows
        RankIn(t, S, d) == Cardinality({ x \in S : t[x].id <= t[d].id })
    IN [d \in DOMAIN tbl \cup DOMAIN rows |->
           IF d \in DOMAIN rows
           THEN [rows[d] EXCEPT !.id = Cardinality(kept) + RankIn(rows, DOMAIN rows, d)]
           ELSE [tbl[d] EXCEPT !.id = RankIn(tbl, kept, d)]]

\* the Date row of the sheet names the days that have a column
day_columns(sheet) == { d \in 1..31 : d < sheet.columns }

\* hospital: the rows of the month are deleted, then one row is stored for
\* each day of 1..get_days_in_month, with NULLs where the sheet has no column
HospitalRows(sheet, month_year) ==
    [day \in 1..get_days_in_month(month_year) |->
        IF day \in day_columns(sheet) THEN SheetRow(sheet, day)
        ELSE NewRow(day, NULL, NULL)]

parse_excel_and_store(month_year, sheet) ==
    /\ org = "hospital"
    /\ profile' = IF profile = NoProfile THEN HospitalProfile ELSE profile
    /\ attendance' = [attendance EXCEPT
                         ![month_year] = InsertOrReplace(NoRows, HospitalRows(sheet, month_year))]
    /\ applied' = applied \ {month_year}
    /\ reapplied' = reapplied \ {month_year}
    /\ last' = NoMonth
    /\ result' = NoResult
    /\ UNCHANGED <<org, batch, running, colleague>>

\* super clinic: one row for every column index of 1..31 the frame has
SuperclinicRows(sheet) ==
    [day_col_idx \in { i \in 1..LastDayColumn : ~(i >= sheet.columns) } |->
        SheetRow(sheet, day_col_idx)]

\* the master row inserted for a new employee of the category
SuperclinicProfile(category) ==
    IF category = "Consultant"
    THEN [category |-> category, date_of_joining |-> NoDate,
          initial_paid_cl |-> 0, initial_paid_wo |-> 0,
          cl_calendar_year_quota |-> 12, cl_used_this_year |-> 0]
    ELSE [category |-> category, date_of_joining |-> NoDate,
          initial_paid_cl |-> 1, initial_paid_wo |-> 3,
          cl_calendar_year_quota |-> NullQuota, cl_used_this_year |-> 0]

parse_superclinic_and_store(month_year_str, sheet, category) ==
    /\ org = "superclinic"
    /\ profile' = IF profile = NoProfile THEN SuperclinicProfile(category)
                  ELSE [profile EXCEPT !.category = category]
    /\ attendance' = [attendance EXCEPT
                         ![month_year_str] = InsertOrReplace(@, SuperclinicRows(sheet))]
    /\ applied' = applied \ {month_year_str}
    /\ reapplied' = reapplied \ {month_year_str}
    /\ last' = NoMonth
    /\ result' = NoResult
    /\ UNCHANGED <<org, batch, running, colleague>>

\* the employees whose name categorize_employee gives the default category
ExtractedCategories == {StaffCategory}

\* an empty store of either organisation
InitExtract ==
    /\ org \in {"hospital", "superclinic"}
    /\ profile = NoProfile
    /\ attendance = [m \in MonthKeys |-> NoRows]
    /\ InitHistory

NextExtract ==
    \/ \E m \in MonthKeys, sheet \in Sheets : parse_excel_and_store(m, sheet)
    \/ \E m \in MonthKeys, sheet \in Sheets, category \in ExtractedCategories :
          parse_superclinic_and_store(m, sheet, category)
    \/ \E m \in MonthKeys : apply_leave_policy_for_month(m) /\ UNCHANGED <<batch, running, colleague>>
    \/ \E m \in MonthKeys : apply_appropriate_leave_policy(m) /\ UNCHANGED <<batch, running, colleague>>

SpecExtract == InitExtract /\ [][NextExtract]_vars

----------------------------------------------------------------------------
(* Storage order: a SELECT without ORDER BY may return the rows in any order *)

Permutations(S) == { f \in [S -> S] : \A a, b \in S : f[a] = f[b] => a = b }

\* the rows of tbl, those of the days of DOMAIN ids stored in the order ids
Stored(tbl, ids) ==
    [d \in DOMAIN tbl |-> IF d \in DOMAIN ids THEN [tbl[d] EXCEPT !.id = ids[d]] ELSE tbl[d]]

\* the months of InitBatch with every set of absences in the first ConsDays
\* days, and the first ConsDays rows in every storage order
OrderProfiles == { p \in FaultProfiles : p.cl_calendar_year_quota # NullQuota \/ ~IsConsultantCategory(p) }

InitOrder ==
    /\ \/ org = "hospital" /\ profile = HospitalProfile
       \/ org = "superclinic" /\ profile \in OrderProfiles
    /\ \E a1 \in SUBSET (1..ConsDays), ids1 \in Permutations(1..ConsDays),
          n2 \in {0, ShortDays} :
          attendance = [m \in MonthKeys |->
                           IF m = "Jun 2025"
                           THEN Stored(MonthRows(MaxDay, (1..MaxDay) \ a1, BothPunches), ids1)
                           ELSE MonthRows(n2, {}, BothPunches)]
    /\ InitHistory

SpecOrder == InitOrder /\ [][Next]_vars

----------------------------------------------------------------------------
(* Stored rows: what the TEXT columns of a row may hold when a policy reads it *)

BlankDays == 3

\* in_time, out_time: NULL, the empty string the classifier tests for, a time
PunchValues == {NULL, "", SomeTime}
\* status_raw: NULL, or the cell of the sheet's attendance row
RawStatuses == {NULL, "P", "A"}
\* status_calculated: NULL after extraction, or what an earlier run left
PriorStatuses == {NULL, "P", "WO"}

StoredRow(day, in_time, out_time, status_raw, status_calculated) ==
    [NewRow(day, in_time, out_time) EXCEPT !.status_raw = status_raw,
                                           !.status_calculated = status_calculated]

\* a month of MaxDay rows: the first BlankDays rows hold any punch values,
\* the next rest_present rows both punches, the others none
StoredMonth(cells, rest_present, status_raw, status_calculated) ==
    [d \in 1..MaxDay |->
        IF d <= BlankDays
        THEN StoredRow(d, cells[d][1], cells[d][2], status_raw, status_calculated)
        ELSE IF d <= BlankDays + rest_present
        THEN StoredRow(d, SomeTime, SomeTime, status_raw, status_calculated)
        ELSE StoredRow(d, NULL, NULL, status_raw, status_calculated)]

InitStored ==
    /\ \/ org = "hospital" /\ profile = HospitalProfile
       \/ org = "superclinic" /\ profile \in OrderProfiles
    /\ \E cells \in [1..BlankDays -> PunchValues \X PunchValues],
          rest_present \in {0, MinPresentDays - 1, MaxDay - BlankDays},
          status_raw \in RawStatuses, status_calculated \in PriorStatuses :
          attendance = [m \in MonthKeys |->
                           IF m = "Jun 2025"
                           THEN StoredMonth(cells, rest_present, status_raw, status_calculated)
                           ELSE NoRows]
    /\ InitHistory

SpecStored == InitStored /\ [][Next]_vars

----------------------------------------------------------------------------
(* Months with missing rows: day numbers for which the store holds no row *)

RunDays == 7

\* a month whose days 1..RunDays have a row with both punches, a row without
\* punches or no row, followed by MinPresentDays days with both punches
GapMonth(missing, absent) ==
    InsertOrReplace(NoRows,
        [d \in (1..(RunDays + MinPresentDays)) \ missing |->
            IF d \in absent THEN NewRow(d, NULL, NULL) ELSE NewRow(d, SomeTime, SomeTime)])

InitGaps ==
    /\ \/ org = "hospital" /\ profile = HospitalProfile
       \/ org = "superclinic" /\ profile \in StaffProfiles
    /\ \E missing \in SUBSET (1..RunDays) : \E absent \in SUBSET ((1..RunDays) \ missing) :
          attendance = [m \in MonthKeys |->
                           IF m = "Jun 2025" THEN GapMonth(missing, absent) ELSE NoRows]
    /\ InitHistory

SpecGaps == InitGaps /\ [][Next]_vars

----------------------------------------------------------------------------
(* Hospital employees whose master row holds other quotas than the inserted ones *)

\* the columns initial_paid_wo and initial_paid_cl of the hospital master table
HospitalProfiles ==
    { [HospitalProfile EXCEPT !.initial_paid_wo = wo, !.initial_paid_cl = cl] :
      wo \in WoQuotas, cl \in ClQuotas }

InitQuotas ==
    /\ \/ org = "hospital" /\ profile \in HospitalProfiles
       \/ org = "superclinic" /\ profile \in StaffProfiles
    /\ \E a1 \in SUBSET (1..ConsDays), n2 \in {0, ShortDays} :
          attendance = [m \in MonthKeys |->
                           IF m = "Jun 2025"
                           THEN MonthRows(MaxDay, (1..MaxDay) \ a1, BothPunches)
                           ELSE MonthRows(n2, {}, BothPunches)]
    /\ InitHistory

SpecQuotas == InitQuotas /\ [][Next]_vars

\* the batch loops of the super clinic, the modelled employee with or without
\* a row in the master table
InitCoverage ==
    /\ org = "superclinic"
    /\ profile \in FaultProfiles \cup {NoProfile}
    /\ \E a1 \in {{1}, 1..ConsDays}, n2 \in {0, ShortDays} :
          attendance = [m \in MonthKeys |->
                           IF m = "Jun 2025"
                           THEN MonthRows(MaxDay, (1..MaxDay) \ a1, BothPunches)
                           ELSE MonthRows(n2, {}, BothPunches)]
    /\ InitHistory

SpecCoverage == InitCoverage /\ [][NextBatch]_vars

----------------------------------------------------------------------------
(* A consultant's months across the end of a calendar year *)

YearEndKeys == {"Nov 2025", "Dec 2025", "Jan 2026"}

\* a consultant with an annual quota of MaxYearQuota and nothing used, and
\* three months of ShortDays days
InitYearEnd ==
    /\ org = "superclinic"
    /\ profile \in { p \in ConsultantProfiles :
                       /\ p.cl_calendar_year_quota = MaxYearQuota
                       /\ p.cl_used_this_year = 0 }
    /\ \E present \in [YearEndKeys -> SUBSET (1..ShortDays)] :
          attendance = [m \in YearEndKeys |-> MonthRows(ShortDays, present[m], BothPunches)]
    /\ InitHistory

NextYearEnd ==
    \E m \in YearEndKeys : apply_appropriate_leave_policy(m) /\ UNCHANGED <<batch, running, colleague>>

SpecYearEnd == InitYearEnd /\ [][NextYearEnd]_vars

----------------------------------------------------------------------------
(* Two sessions: a consultant with nothing used and two months of ShortDays days *)

InitSessions ==
    /\ org = "superclinic"
    /\ profile \in { p \in ConsultantProfiles :
                       /\ p.cl_calendar_year_quota # NullQuota
                       /\ p.cl_used_this_year = 0 }
    /\ \E p1 \in SUBSET (1..ShortDays), p2 \in SUBSET (1..ShortDays) :
          attendance = [m \in MonthKeys |->
                           IF m = "Jun 2025" THEN MonthRows(ShortDays, p1, BothPunches)
                           ELSE MonthRows(ShortDays, p2, BothPunches)]
    /\ InitHistory

NextSessions ==
    \/ \E m \in MonthKeys : consultant_read(m)
    \/ \E m \in MonthKeys : consultant_allocate(m)
    \/ \E m \in MonthKeys : consultant_finish(m)

SpecSessions == InitSessions /\ [][NextSessions]_vars

----------------------------------------------------------------------------
(* Two employees: the months of InitDispatch for the one, two months of
   ShortDays days for the other *)

ColleagueProfiles ==
    IF org = "hospital" THEN {HospitalProfile}
    ELSE { p \in OrderProfiles : IsConsultantCategory(p) }

InitFrame ==
    /\ \/ org = "hospital" /\ profile = HospitalProfile
       \/ org = "superclinic" /\ profile \in OrderProfiles
    /\ \E a1 \in SUBSET (1..ConsDays) :
          attendance = [m \in MonthKeys |->
                           IF m = "Jun 2025"
                           THEN MonthRows(MaxDay, (1..MaxDay) \ a1, BothPunches)
                           ELSE MonthRows(ShortDays, {}, BothPunches)]
    /\ \E p \in ColleagueProfiles, present \in SUBSET (1..ShortDays) :
          colleague = [profile |-> p,
                       attendance |-> [m \in MonthKeys |->
                                          MonthRows(ShortDays, present, BothPunches)]]
    /\ InitIdle

NextFrame == \E m \in MonthKeys : apply_policy_in_store(m)

SpecFrame == InitFrame /\ [][NextFrame]_vars

----------------------------------------------------------------------------
(* Vocabulary of the properties, read off the raw punches of a month *)

FinalStatuses == {"P", "WO", "CL", "Absent"}

StatusOf(tbl, d) == tbl[d].status_calculated

NoPunch(r) == r.in_time \in {NULL, ""} /\ r.out_time \in {NULL, ""}

\* the days with a row and no punch
AbsenceDays(tbl) == { d \in DOMAIN tbl : NoPunch(tbl[d]) }

PunchedDays(tbl) == DOMAIN tbl \ AbsenceDays(tbl)

\* position of absence day d in its maximal run of consecutive absence days
PositionInRun(abs, d) == d - Max0({ e \in 1..(d - 1) : e \notin abs })

\* length of that run
RunLength(abs, d) ==
    LET after == { e \in abs : e > d /\ \A x \in d..e : x \in abs }
    IN PositionInRun(abs, d) + Cardinality(after)

\* absence days that the long-run rule leaves to the quota allocation
EligibleDays(abs) == { d \in abs : PositionInRun(abs, d) <= 3 }

\* 1-based rank of day d among the eligible days of the month
RankOf(elig, d) == Cardinality({ e \in elig : e <= d })

GreedyStatus(k, wo_quota, cl_quota) ==
    IF k <= wo_quota THEN "WO"
    ELSE IF k <= wo_quota + cl_quota THEN "CL"
    ELSE "Absent"

CountStatus(tbl, st) == Cardinality({ d \in DOMAIN tbl : StatusOf(tbl, d) = st })

\* the quotas in force: 3 and 1 in the hospital and for a missing profile
WoQuotaInForce ==
    IF org = "hospital" \/ profile = NoProfile THEN 3 ELSE profile.initial_paid_wo
ClQuotaInForce ==
    IF org = "hospital" \/ profile = NoProfile THEN 1 ELSE profile.initial_paid_cl

IsConsultant == org = "superclinic" /\ profile # NoProfile /\ profile.category = "Consultant"
IsStaff == org = "superclinic" /\ ~IsConsultant

\* hospital months, and staff months with at least 9 present days
GateOpen(tbl) == org = "hospital" \/ (IsStaff /\ Cardinality(PunchedDays(tbl)) >= 9)

\* status_calculated of every day of a month
StatusesOf(tbl) == [d \in DOMAIN tbl |-> StatusOf(tbl, d)]

\* the month as the policy of the employee leaves it when it runs to its end
FullyRecomputed(tbl) ==
    IF org = "hospital" THEN HospitalPolicy(tbl)
    ELSE IF IsConsultant THEN ConsultantPolicy(tbl, profile)
    ELSE StaffPolicy(tbl, profile)

\* a store operation raised during the latest invocation
StoreFailed(r) == r.report = "error" \/ r.raised

----------------------------------------------------------------------------
(* Claims *)

\* C1: after the policy has completed on a month that has rows, every row of
\* that month has status_calculated in {P, WO, CL, Absent}; none is left 'AB'
\* or unset.
C1_Exhaustive ==
    \A m \in applied : \A d \in DOMAIN attendance[m] :
        StatusOf(attendance[m], d) \in FinalStatuses

C3_StaffQuotaCeiling ==
    IsStaff =>
       \A m \in applied :
          /\ CountStatus(attendance[m], "WO") <=
                (IF profile = NoProfile THEN 3 ELSE profile.initial_paid_wo)
          /\ CountStatus(attendance[m], "CL") <=
                (IF profile = NoProfile THEN 1 ELSE profile.initial_paid_cl)

\* a staff month whose quotas of 1 and 1 are used up and leave a short-run
\* absence day Absent
C3_Witness ==
    /\ IsStaff /\ profile # NoProfile
    /\ profile.initial_paid_wo = 1 /\ profile.initial_paid_cl = 1
    /\ "Jun 2025" \in applied
    /\ LET tbl == attendance["Jun 2025"] IN
          /\ CountStatus(tbl, "WO") = 1
          /\ CountStatus(tbl, "CL") = 1
          /\ \E d \in EligibleDays(AbsenceDays(tbl)) : StatusOf(tbl, d) = "Absent"

C5_EligibilityGate ==
    IsStaff =>
       \A m \in applied :
          LET tbl == attendance[m]
              abs == AbsenceDays(tbl)
              elig == EligibleDays(abs)
          IN IF Cardinality(PunchedDays(tbl)) < 9
             THEN /\ \A d \in abs : StatusOf(tbl, d) = "Absent"
                  /\ \A d \in DOMAIN tbl : StatusOf(tbl, d) \notin {"WO", "CL"}
             ELSE \A d \in abs :
                     StatusOf(tbl, d) =
                        IF d \in elig
                        THEN GreedyStatus(RankOf(elig, d), WoQuotaInForce, ClQuotaInForce)
                        ELSE "Absent"

\* a staff month with exactly 8 present days, full quotas, and its absence
\* days all Absent
C5_Witness ==
    /\ IsStaff /\ profile # NoProfile
    /\ profile.initial_paid_wo = 3 /\ profile.initial_paid_cl = 1
    /\ "Jun 2025" \in applied
    /\ Cardinality(PunchedDays(attendance["Jun 2025"])) = 8
    /\ \A d \in AbsenceDays(attendance["Jun 2025"]) :
          StatusOf(attendance["Jun 2025"], d) = "Absent"

\* C6: in a consultant's month, of every maximal run of more than 3
\* consecutive absence days the days from the 4th on end Absent and are never
\* given CL, whatever the remaining annual balance.
C6_ConsultantLongRun ==
    IsConsultant =>
       \A m \in applied :
          LET tbl == attendance[m]
              abs == AbsenceDays(tbl)
          IN \A d \in abs :
                PositionInRun(abs, d) > 3 =>
                   StatusOf(tbl, d) = "Absent" /\ StatusOf(tbl, d) # "CL"

C8_AnnualInvariant ==
    IsConsultant =>
       /\ profile.cl_used_this_year >= 0
       /\ profile.cl_used_this_year <= ConsultantClQuota(profile)

\* a consultant whose quota of 12 was derived, and was used up by invocations
\* on both months, one of them repeated
C8_Witness ==
    /\ IsConsultant
    /\ profile.cl_calendar_year_quota = 12
    /\ profile.cl_used_this_year = 12
    /\ "Jun 2025" \in reapplied /\ "Jul 2025" \in applied

\* C9: for a consultant with remaining balance r >= 1 and n eligible absence
\* days in the month (those the long-run rule leaves), exactly the min(n, r)
\* earliest of them become CL, the other eligible days become Absent, and
\* cl_used_this_year grows by exactly min(n, r).
C9_ConsultantAllocation ==
    [][ \A m \in MonthKeys :
           (IsConsultant /\ last' = m /\ m \in applied') =>
              LET r == ConsultantClQuota(profile) - profile.cl_used_this_year
                  tbl == attendance'[m]
                  elig == EligibleDays(AbsenceDays(attendance[m]))
                  k == Min(Cardinality(elig), r)
              IN r >= 1 =>
                   /\ { d \in DOMAIN tbl : StatusOf(tbl, d) = "CL" } =
                         { d \in elig : RankOf(elig, d) <= k }
                   /\ \A d \in elig : RankOf(elig, d) > k => StatusOf(tbl, d) = "Absent"
                   /\ profile'.cl_used_this_year = profile.cl_used_this_year + k ]_vars

\* C10: for a hospital or staff month, invoking the policy again, with the
\* punches and quotas unchanged, leaves every day's status_calculated as the
\* invocation before left it.
C10_Idempotent ==
    [][ \A m \in MonthKeys :
           (~IsConsultant /\ last' = m /\ m \in applied) =>
              \A d \in DOMAIN attendance[m] :
                 StatusOf(attendance'[m], d) = StatusOf(attendance[m], d) ]_vars

\* a staff month invoked at least twice that holds WO, CL and Absent days
C10_Witness ==
    /\ IsStaff
    /\ "Jun 2025" \in reapplied
    /\ CountStatus(attendance["Jun 2025"], "WO") >= 1
    /\ CountStatus(attendance["Jun 2025"], "CL") >= 1
    /\ CountStatus(attendance["Jun 2025"], "Absent") >= 1

\* C11: every invocation for a consultant's month adds to cl_used_this_year
\* the number of CL days it grants, which is the number of CL days the month
\* holds afterwards, and subtracts nothing for the CL the month held before;
\* so after invocations granting k1 and then k2 days the counter is its
\* initial value + k1 + k2 while the month holds k2 CL days.
C11_DoubleCount ==
    [][ \A m \in MonthKeys :
           (IsConsultant /\ last' = m /\ m \in applied') =>
              LET r == ConsultantClQuota(profile) - profile.cl_used_this_year
                  held == CountStatus(attendance'[m], "CL")
              IN /\ profile'.cl_used_this_year = profile.cl_used_this_year + held
                 /\ r > 0 => held = Min(r, Cardinality(AbsenceDays(attendance[m]))) ]_vars

\* a consultant whose counter started at 0 (quota derived as 12), with only
\* the first month invoked, and that at least twice: the counter exceeds the
\* CL days the month holds
C11_Witness ==
    /\ IsConsultant
    /\ profile.cl_calendar_year_quota = 12
    /\ "Jun 2025" \in reapplied /\ "Jul 2025" \notin applied
    /\ CountStatus(attendance["Jun 2025"], "CL") >= 1
    /\ profile.cl_used_this_year >= 2 * CountStatus(attendance["Jun 2025"], "CL")

\* C12: the dispatcher runs the consultant policy exactly when the employee
\* has a master row whose category is 'Consultant'; for any other category,
\* a NULL category or no master row it runs the staff policy, and with no
\* master row the staff policy does not fail but allocates with wo_quota = 3
\* and cl_quota = 1.
C12_Dispatch ==
    (org = "superclinic" /\ last # NoMonth) =>
       LET tbl == attendance[last]
           elig == EligibleDays(AbsenceDays(tbl))
       IN /\ result.variant = "consultant" <=>
                (profile # NoProfile /\ profile.category = "Consultant")
          /\ result.variant = "staff" <=>
                (profile = NoProfile \/ profile.category # "Consultant")
          /\ profile = NoProfile =>
                /\ ~result.raised
                /\ result.report \in {"applied", "not_eligible", "no_records"}
                /\ Cardinality(PunchedDays(tbl)) >= 9 =>
                      \A d \in elig : StatusOf(tbl, d) = GreedyStatus(RankOf(elig, d), 3, 1)

\* an employee code with no master row whose month got the 3 WO and the 1 CL
\* of the default quotas
C12_Witness ==
    /\ org = "superclinic" /\ profile = NoProfile
    /\ last = "Jun 2025"
    /\ result = Returned("staff", "applied")
    /\ CountStatus(attendance["Jun 2025"], "WO") = 3
    /\ CountStatus(attendance["Jun 2025"], "CL") = 1

\* C13: after the hospital or the staff policy, no 4 consecutive calendar
\* days of the month all have a status in {WO, CL}.
C13_NoClubbing ==
    ~IsConsultant =>
       \A m \in applied :
          LET tbl == attendance[m]
          IN \A d \in DOMAIN tbl :
                ~ \A x \in d..(d + 3) :
                     x \in DOMAIN tbl /\ StatusOf(tbl, x) \in {"WO", "CL"}

\* a run of at least 4 absence days whose first 3 days are paid and whose 4th
\* is Absent although the CL quota was left unused
C13_Witness ==
    /\ ~IsConsultant
    /\ "Jun 2025" \in applied
    /\ LET tbl == attendance["Jun 2025"]
       IN /\ ClQuotaInForce >= 1
          /\ CountStatus(tbl, "CL") = 0
          /\ \E d \in DOMAIN tbl :
                /\ d + 3 \in DOMAIN tbl
                /\ \A x \in d..(d + 2) : StatusOf(tbl, x) = "WO"
                /\ StatusOf(tbl, d + 3) = "Absent"

\* C14: when a store operation raises during an invocation, the statuses of
\* every month are afterwards either those from before the invocation or the
\* fully recomputed ones; nothing a completed earlier pass wrote (such as days
\* reset to 'AB') stays.
C14_FailureAtomic ==
    [][ StoreFailed(result') =>
           \A m \in MonthKeys :
              \/ StatusesOf(attendance'[m]) = StatusesOf(attendance[m])
              \/ StatusesOf(attendance'[m]) = StatusesOf(FullyRecomputed(attendance[m])) ]_vars

\* C16: a store failure during an invocation reaches the caller as an
\* exception; it is not absorbed by the policy function, which would then
\* return normally.
C16_FailurePropagated ==
    StoreFailed(result) => result.raised

\* C15: when a batch loop is through, every employee listed for every month
\* of the batch had its policy invoked, whatever exception the invocation
\* for another employee raised, and every exception raised was recorded as
\* an error of that employee.
C15_BatchIsolation ==
    batch.kind = "done" =>
       /\ batch.listed \subseteq batch.invoked
       /\ \A p \in batch.raised : <<"employee", p[1], p[2]>> \in batch.errors

\* C17: an invocation for a month without rows reports that no records were
\* found and returns; it changes no attendance row of any month and not the
\* consultant's cl_used_this_year.
C17_NoRecords ==
    [][ \A m \in MonthKeys :
           (last' = m /\ DOMAIN attendance[m] = {}) =>
              /\ result'.report = "no_records"
              /\ ~result'.raised
              /\ attendance' = attendance
              /\ profile # NoProfile =>
                    profile'.cl_used_this_year = profile.cl_used_this_year ]_vars

\* a consultant with CL already counted, invoked on the month without rows
C17_Witness ==
    /\ IsConsultant
    /\ last = "Jul 2025" /\ DOMAIN attendance["Jul 2025"] = {}
    /\ result = Returned("consultant", "no_records")
    /\ "Jun 2025" \in applied
    /\ profile.cl_used_this_year >= 1

\* C18: after the policy has completed on a super-clinic month, whatever
\* earlier invocations left in the rows, every day has leave_type_used = 'WO'
\* exactly when its status is WO, 'CL' exactly when its status is CL, and
\* NULL otherwise.
C18_LeaveTypeMirrors ==
    org = "superclinic" =>
       \A m \in applied :
          \A d \in DOMAIN attendance[m] :
             attendance[m][d].leave_type_used =
                IF StatusOf(attendance[m], d) \in {"WO", "CL"}
                THEN StatusOf(attendance[m], d) ELSE NULL

\* the number of calendar days of the month a month key names
CalendarDays(m) == IF m = "Jun 2025" THEN 30 ELSE 31

\* the statuses by which the engine treats a day as an absence
AbsenceStatuses == {"AB", "WO", "CL", "Absent"}

\* C19: every row extraction stores for an employee-month has a day number in
\* 1..N, N the number of calendar days of that month, so that no day beyond
\* the end of the month is ever classified absent or given WO or CL.
C19_DayRange ==
    \A m \in MonthKeys : \A d \in DOMAIN attendance[m] :
        /\ d \in 1..CalendarDays(m)
        /\ d > CalendarDays(m) => StatusOf(attendance[m], d) \notin AbsenceStatuses

\* the same rows, stored in the order of their days
InDayOrder(tbl) == [d \in DOMAIN tbl |-> [tbl[d] EXCEPT !.id = d]]

\* C20: the statuses a policy run leaves on a month are those it leaves when
\* the same rows are stored in day order; every storage order of the rows is
\* an initial state of SpecOrder, so the statuses are the same for all of them.
C20_OrderIndependent ==
    [][ \A m \in MonthKeys :
          (last' = m /\ m \in applied') =>
              StatusesOf(attendance'[m])
                = StatusesOf(FullyRecomputed(InDayOrder(attendance[m]))) ]_vars

\* a month stored out of day order was given paid leave and, on a long run,
\* Absent
C20_Witness ==
    \E m \in applied :
        /\ TableScan(attendance[m]) # OrderByDay(DOMAIN attendance[m])
        /\ \E d \in DOMAIN attendance[m] : StatusOf(attendance[m], d) = "Absent"
        /\ \E d \in DOMAIN attendance[m] : StatusOf(attendance[m], d) \in {"WO", "CL"}

\* C21: the first pass gives a day 'P' exactly when its in_time or its
\* out_time is neither NULL nor empty, and 'AB' otherwise, whatever status_raw
\* and status_calculated the row held; a day so given 'P' is 'P' when the
\* policy has run to its end, and no other day is.
C21_Classification ==
    [][ \A m \in MonthKeys :
          (last' = m /\ m \in applied') =>
              \A d \in DOMAIN attendance[m] :
                  /\ InitialStatusUpdates(attendance[m])[d]
                        = IF NoPunch(attendance[m][d]) THEN "AB" ELSE "P"
                  /\ StatusOf(attendance'[m], d) = "P" <=> ~NoPunch(attendance[m][d]) ]_vars

\* a row with an empty in_time whose status_raw and earlier status_calculated
\* were 'P' is not 'P', and a row with an out_time alone is
C21_Witness ==
    \E m \in applied \ reapplied : \E d, e \in DOMAIN attendance[m] :
        /\ attendance[m][d].in_time = "" /\ attendance[m][d].out_time = NULL
        /\ attendance[m][d].status_raw = "P"
        /\ StatusOf(attendance[m], d) \notin {"P", NULL}
        /\ attendance[m][e].in_time = NULL /\ attendance[m][e].out_time = SomeTime
        /\ StatusOf(attendance[m], e) = "P"

\* the absence days that reach d through absence days of consecutive numbers
RunOf(abs, d) ==
    { e \in abs : \A x \in Min(d, e)..Max(d, e) : x \in abs }

MaximalRuns(abs) == { RunOf(abs, d) : d \in abs }

\* the sequences the hospital and the staff policy compute on a month
SequencesOf(tbl) ==
    LET initial == SetStatus(tbl, InitialStatusUpdates(tbl))
    IN FindSequences(initial, query_with_status_ordered(initial), 1, <<>>, <<>>)

\* C22: the sequences computed are exactly the maximal sets of 'AB' days with
\* consecutive day numbers, each in ascending order: a present day and a
\* missing day number both end a sequence, and the sequence that ends the
\* month is included; a day is marked Absent by the long-run rule only from
\* its position in such a sequence.
C22_Segmentation ==
    [][ \A m \in MonthKeys :
          (last' = m /\ m \in applied' /\ ~IsConsultant) =>
              LET sequences == SequencesOf(attendance[m])
                  abs == AbsenceDays(attendance[m])
              IN /\ { { sequences[i][j] : j \in 1..Len(sequences[i]) } :
                        i \in 1..Len(sequences) } = MaximalRuns(abs)
                 /\ \A i \in 1..Len(sequences) : \A j \in 1..(Len(sequences[i]) - 1) :
                        sequences[i][j + 1] = sequences[i][j] + 1
                 /\ \A d \in abs :
                        PositionInRun(abs, d) > 3 => StatusOf(attendance'[m], d) = "Absent"
                 /\ \A d \in abs :
                        (PositionInRun(abs, d) <= 3 /\ RankOf(EligibleDays(abs), d) <= WoQuotaInForce)
                            => StatusOf(attendance'[m], d) = "WO" ]_vars

\* two absence stretches of two days with a missing day number between them:
\* none of the four days is marked Absent
C22_Witness ==
    \E m \in applied : \E d \in 3..(RunDays - 2) :
        /\ d \notin DOMAIN attendance[m]
        /\ {d - 2, d - 1, d + 1, d + 2} \subseteq AbsenceDays(attendance[m])
        /\ \A e \in {d - 2, d - 1, d + 1, d + 2} : StatusOf(attendance[m], e) \in {"WO", "CL"}

\* C23: with a WO quota of 3 in force, the first 3 days of every sequence of
\* more than 3 consecutive 'AB' days are WO and no day of such a sequence is
\* CL, and for super-clinic staff the days of a sequence of exactly 3 are WO,
\* whatever absences the month has before the sequence.
C23_LongSequenceRule ==
    \A m \in applied :
        (GateOpen(attendance[m]) /\ WoQuotaInForce = 3) =>
            LET abs == AbsenceDays(attendance[m])
            IN \A d \in abs :
                  /\ (RunLength(abs, d) > 3 /\ PositionInRun(abs, d) <= 3)
                        => StatusOf(attendance[m], d) = "WO"
                  /\ RunLength(abs, d) > 3 => StatusOf(attendance[m], d) # "CL"
                  /\ (IsStaff /\ RunLength(abs, d) = 3)
                        => StatusOf(attendance[m], d) = "WO"

MonthsProcessed == { p[2] : p \in batch.listed }

YearOf(m) == MonthParts(m)[2]

RECURSIVE SumOver(_, _)
SumOver(f, S) ==
    IF S = {} THEN 0
    ELSE LET x == CHOOSE y \in S : TRUE IN f[x] + SumOver(f, S \ {x})

\* the CL days the months of calendar year y hold, each month having been
\* run at most once
GrantedInYear(y) ==
    SumOver([k \in YearEndKeys |-> CountStatus(attendance[k], "CL")],
            { k \in applied : YearOf(k) = y })

\* C27: when the consultant policy runs for the first time on a month of
\* calendar year Y, no month having been run twice, the CL days it gives are
\* as many as the absence days of the month, up to the annual quota less the
\* CL given in months of year Y: CL given in months of another year does not
\* count against it.
C27_CalendarYearScope ==
    [][ \A m \in YearEndKeys :
          (last' = m /\ m \in applied' /\ m \notin applied /\ reapplied = {}) =>
              CountStatus(attendance'[m], "CL")
                = Min(Cardinality(AbsenceDays(attendance[m])),
                      Max(0, profile.cl_calendar_year_quota - GrantedInYear(YearOf(m)))) ]_vars

\* CL days the months hold
ClHeld == CountStatus(attendance["Jun 2025"], "CL") + CountStatus(attendance["Jul 2025"], "CL")

\* C28: a consultant starts with nothing used; when the policy has run once on
\* each of the two months, in whatever interleaving of the two invocations,
\* the CL days both gave are at most the annual quota and the counter equals
\* their number.
C28_NoLostUpdate ==
    (reapplied = {} /\ \A m \in MonthKeys : running[m] = Idle) =>
        /\ ClHeld <= profile.cl_calendar_year_quota
        /\ profile.cl_used_this_year = ClHeld

\* the row but for the two columns a policy writes
Untouched(r) == [r EXCEPT !.status_calculated = NULL, !.leave_type_used = NULL]

\* C29: an invocation for an employee and a month leaves every row of the
\* employee's other months, every row of the other employee and the other
\* employee's master row as they were, and on the rows of the month it keeps
\* the days and changes no column but status_calculated and leave_type_used.
C29_Frame ==
    [][ \A m \in MonthKeys :
          last' = m =>
              /\ colleague' = colleague
              /\ \A k \in MonthKeys \ {m} : attendance'[k] = attendance[k]
              /\ DOMAIN attendance'[m] = DOMAIN attendance[m]
              /\ \A d \in DOMAIN attendance[m] :
                     Untouched(attendance'[m][d]) = Untouched(attendance[m][d]) ]_vars

\* the policy gave the employee's month its statuses while the other month
\* and the other employee's rows of the same month are still unset
C29_Witness ==
    /\ last \in applied
    /\ \E d \in DOMAIN attendance[last] : StatusOf(attendance[last], d) \in {"WO", "CL", "Absent"}
    /\ \E k \in MonthKeys \ {last} : \E d \in DOMAIN attendance[k] :
           StatusOf(attendance[k], d) = NULL
    /\ \E d \in DOMAIN colleague.attendance[last] :
           /\ colleague.attendance[last][d].in_time = NULL
           /\ StatusOf(colleague.attendance[last], d) = NULL

\* C30: on every month of the employee the policy has been applied to, the
\* summary's Unused_WO and Unused_CL are both at least 0, for the hospital,
\* for staff and for consultants.
C30_BalancesNotNegative ==
    \A m \in applied :
        ~NoRecords(attendance[m]) =>
            /\ Unused_WO(attendance[m]) >= 0
            /\ Unused_CL(attendance[m]) >= 0

====
